---------------------------- MODULE Spec2Model ----------------------------
(***************************************************************************)
(* Model of the two inference services of atlas/hermes.py (HermesModel:    *)
(* parse_message, parse_batch) and atlas/serve.py (AtlasModel: chat,       *)
(* parse_intent): request validation, ChatML prompt assembly, the call to  *)
(* the inference engine, and the regex + json.loads recovery of a JSON     *)
(* value from the completion.                                              *)
(*                                                                         *)
(* A text (a completion) is a sequence of lexemes: the JSON punctuation    *)
(* "[" "]" "{" "}" "," ":", string literals (named by their content),      *)
(* the number "1", the literal "null", white space " " and the word "x",   *)
(* which is no JSON lexeme.  A prompt is a sequence of markers, role names *)
(* and contents.                                                           *)
(***************************************************************************)
EXTENDS Integers, Sequences, FiniteSets, TLC

VARIABLES
    pc,            \* "idle" (a request is awaited) | "responded" (the handler
                   \* returned) | "raised" (an exception left the handler)
    endpoint,      \* the handler that served the last request
    request,       \* the request body, a dict
    handed,        \* the turn sequences handed to _format_messages, in order
    prompts,       \* the prompts built during the request, in order
    outcomes,      \* what llm.generate did on each call of the request
    response       \* the response body, or NoResponse

vars == <<pc, endpoint, request, handed, prompts, outcomes, response>>

(***************************************************************************)
(* Bounds of the model.                                                    *)
(***************************************************************************)
MaxArrayText == 4    \* longest free completion of the Hermes engine, in lexemes
MaxJobs == 2         \* most elements of a JSON array the Hermes engine renders
MaxObjectText == 4   \* longest free completion of the Atlas engine, in lexemes
MaxBatch == 2        \* most messages of a parse_batch request
MaxTurns == 3        \* most turns of a chat request
MaxHistory == 5      \* most turns of the history of a parse_intent request

(***************************************************************************)
(* Python values.  A dict is a function on its keys; d.get(k, default).    *)
(***************************************************************************)
Get(d, k, default) == IF k \in DOMAIN d THEN d[k] ELSE default

NoResponse == [none |-> TRUE]

Min(S) == CHOOSE x \in S : \A y \in S : x <= y
Max(S) == CHOOSE x \in S : \A y \in S : x >= y

\* `not raw_text` and `not messages`: the text, the list is empty (an absent
\* key has been given the empty default by then).
NoTextNever(raw_text) == FALSE
NoText(raw_text) == raw_text = ""
NoList(messages) == messages = <<>>

(***************************************************************************)
(* JSON values as json.loads builds them.  Every value is a record of the  *)
(* same shape: a scalar carries its lexeme, a list its items, a dict its   *)
(* keys in insertion order and the value of each key.                      *)
(***************************************************************************)
Scalar(lex) == [t |-> "scalar", lex |-> lex, keys |-> <<>>, items |-> <<>>]
List(items) == [t |-> "list", lex |-> "", keys |-> <<>>, items |-> items]
Dict(keys, items) == [t |-> "dict", lex |-> "", keys |-> keys, items |-> items]

JsonNull == Scalar("null")

StringLexemes ==
    {"intent", "origin", "destination", "vehicle_type", "cargo_type", "extra",
     "A", "search", "other"}
ScalarLexemes == StringLexemes \cup {"1", "null"}
WhiteSpace == " "

\* dict[key] = value: a repeated key keeps its place and takes the new value.
DictSet(d, key, value) ==
    IF \E i \in 1..Len(d.keys) : d.keys[i] = key
    THEN LET i == CHOOSE i \in 1..Len(d.keys) : d.keys[i] = key
         IN  Dict(d.keys, [d.items EXCEPT ![i] = value])
    ELSE Dict(Append(d.keys, key), Append(d.items, value))

\* dict.get(key, default) on a parsed JSON object.
DictGet(d, key, default) ==
    IF \E i \in 1..Len(d.keys) : d.keys[i] = key
    THEN d.items[CHOOSE i \in 1..Len(d.keys) : d.keys[i] = key]
    ELSE default

(***************************************************************************)
(* json.loads: the decoder's scanner, by recursive descent from position   *)
(* i of the text.  A result is [ok, val, next]; ok = FALSE is the decoder  *)
(* raising json.JSONDecodeError.                                           *)
(***************************************************************************)
DecodeError == [ok |-> FALSE, val |-> JsonNull, next |-> 0]
Decoded(val, next) == [ok |-> TRUE, val |-> val, next |-> next]

RECURSIVE SkipWs(_, _)
SkipWs(s, i) ==
    IF i <= Len(s) /\ s[i] = WhiteSpace THEN SkipWs(s, i + 1) ELSE i

RECURSIVE ScanOnce(_, _), JSONArray(_, _, _), JSONObject(_, _, _)

\* The items of an array from position i (white space skipped), acc so far.
JSONArray(s, i, acc) ==
    LET r == ScanOnce(s, i)
    IN  IF ~r.ok THEN DecodeError
        ELSE LET j == SkipWs(s, r.next)
                 items == Append(acc, r.val)
             IN  IF j > Len(s) THEN DecodeError
                 ELSE IF s[j] = "]" THEN Decoded(List(items), j + 1)
                 ELSE IF s[j] = "," THEN JSONArray(s, SkipWs(s, j + 1), items)
                 ELSE DecodeError

\* The members of an object from position i (white space skipped), d so far.
JSONObject(s, i, d) ==
    IF i > Len(s) \/ s[i] \notin StringLexemes THEN DecodeError
    ELSE LET c == SkipWs(s, i + 1)
         IN  IF c > Len(s) \/ s[c] # ":" THEN DecodeError
             ELSE LET r == ScanOnce(s, SkipWs(s, c + 1))
                  IN  IF ~r.ok THEN DecodeError
                      ELSE LET j == SkipWs(s, r.next)
                               dd == DictSet(d, s[i], r.val)
                           IN  IF j > Len(s) THEN DecodeError
                               ELSE IF s[j] = "}" THEN Decoded(dd, j + 1)
                               ELSE IF s[j] = ","
                                    THEN JSONObject(s, SkipWs(s, j + 1), dd)
                               ELSE DecodeError

ScanOnce(s, i) ==
    IF i > Len(s) THEN DecodeError
    ELSE IF s[i] \in ScalarLexemes THEN Decoded(Scalar(s[i]), i + 1)
    ELSE IF s[i] = "["
         THEN LET j == SkipWs(s, i + 1)
              IN  IF j <= Len(s) /\ s[j] = "]" THEN Decoded(List(<<>>), j + 1)
                  ELSE JSONArray(s, j, <<>>)
    ELSE IF s[i] = "{"
         THEN LET j == SkipWs(s, i + 1)
              IN  IF j <= Len(s) /\ s[j] = "}" THEN Decoded(Dict(<<>>, <<>>), j + 1)
                  ELSE JSONObject(s, j, Dict(<<>>, <<>>))
    ELSE DecodeError

\* A decoder that stops after the first value (raw_decode).
JsonLoadsFirstValue(s) == ScanOnce(s, SkipWs(s, 1))

\* json.loads(s): one value with white space around it and nothing after.
JsonLoads(s) ==
    LET r == ScanOnce(s, SkipWs(s, 1))
    IN  IF r.ok /\ SkipWs(s, r.next) = Len(s) + 1 THEN r ELSE DecodeError

(***************************************************************************)
(* str.strip(): the text without its leading and trailing white space.     *)
(***************************************************************************)
Strip(s) ==
    LET solid == {i \in 1..Len(s) : s[i] # WhiteSpace}
    IN  IF solid = {} THEN <<>> ELSE SubSeq(s, Min(solid), Max(solid))

(***************************************************************************)
(* re.search: the leftmost match, each quantifier as greedy as it says.    *)
(* A result is [found, group].                                             *)
(***************************************************************************)
NoMatch == [found |-> FALSE, group |-> <<>>]
Match(s, from, to) == [found |-> TRUE, group |-> SubSeq(s, from, to)]

\* The lazy pattern r'\[[\s\S]*?\]': "[", then as little as possible.
SearchArrayLazy(s) ==
    LET ends(p) == {q \in (p + 1)..Len(s) : s[q] = "]"}
        starts == {p \in 1..Len(s) : s[p] = "[" /\ ends(p) # {}}
    IN  IF starts = {} THEN NoMatch
        ELSE LET p == Min(starts) IN Match(s, p, Min(ends(p)))

\* re.search(r'\[[\s\S]*\]', s): "[", then as much as possible, then "]".
SearchArray(s) ==
    LET ends(p) == {q \in (p + 1)..Len(s) : s[q] = "]"}
        starts == {p \in 1..Len(s) : s[p] = "[" /\ ends(p) # {}}
    IN  IF starts = {} THEN NoMatch
        ELSE LET p == Min(starts) IN Match(s, p, Max(ends(p)))

\* The greedy pattern r'\{[\s\S]+\}': "{" to the last "}".
SearchObjectGreedy(s) ==
    LET ends(p) == {q \in (p + 2)..Len(s) : s[q] = "}"}
        starts == {p \in 1..Len(s) : s[p] = "{" /\ ends(p) # {}}
    IN  IF starts = {} THEN NoMatch
        ELSE LET p == Min(starts) IN Match(s, p, Max(ends(p)))

\* re.search(r'\{[^}]+\}', s): "{", then one or more characters that are not
\* "}", then "}".
SearchObject(s) ==
    LET ends(p) == {q \in (p + 2)..Len(s) :
                        /\ s[q] = "}"
                        /\ \A k \in (p + 1)..(q - 1) : s[k] # "}"}
        starts == {p \in 1..Len(s) : s[p] = "{" /\ ends(p) # {}}
    IN  IF starts = {} THEN NoMatch
        ELSE LET p == Min(starts) IN Match(s, p, Max(ends(p)))

(***************************************************************************)
(* The inference engine (vllm's LLM.generate), an external collaborator:   *)
(* a call returns a completion, any text, or raises.                       *)
(***************************************************************************)
Completes(text) == [raises |-> FALSE, text |-> text]
Raises == [raises |-> TRUE, text |-> <<>>]
EngineOutcomes(Texts) == {Completes(t) : t \in Texts} \cup {Raises}

(***************************************************************************)
(* HermesModel                                                             *)
(***************************************************************************)
SYSTEM_PROMPT == "Sen Hermes, WhatsApp lojistik mesaj ayristiricisisin. ..."

\* One ChatML block, f"<|im_start|>{role}\n{content}<|im_end|>\n", in pieces.
ChatMLBlock(role, content) ==
    <<"<|im_start|>", role, "\n", content, "<|im_end|>", "\n">>

RECURSIVE HermesFormatLoop(_, _)
HermesFormatLoop(messages, formatted) ==
    IF messages = <<>> THEN formatted
    ELSE LET msg == Head(messages)
             role == Get(msg, "role", "user")
             content == Get(msg, "content", "")
         IN  HermesFormatLoop(Tail(messages),
                 IF role = "system" THEN formatted \o ChatMLBlock("system", content)
                 ELSE IF role = "user" THEN formatted \o ChatMLBlock("user", content)
                 ELSE IF role = "assistant"
                      THEN formatted \o ChatMLBlock("assistant", content)
                 ELSE formatted)

\* An assembler that closes the last marker too.
HermesFormatMessagesClosed(messages) ==
    HermesFormatLoop(messages, <<>>) \o ChatMLBlock("assistant", "")

\* HermesModel._format_messages
HermesFormatMessages(messages) ==
    HermesFormatLoop(messages, <<>>) \o <<"<|im_start|>", "assistant", "\n">>

\* An extractor that coerces each element to the job fields.
Coerced(job) ==
    LET kept == {i \in 1..Len(job.keys) :
                    job.keys[i] \in {"origin", "destination", "weight",
                                     "vehicle_type", "body_type", "phone"}}
        nth(n) == CHOOSE i \in kept : Cardinality({j \in kept : j < i}) = n - 1
    IN  Dict([n \in 1..Cardinality(kept) |-> job.keys[nth(n)]],
             [n \in 1..Cardinality(kept) |-> job.items[nth(n)]])
HermesExtractCoerced(text) ==
    LET stripped == Strip(text)
        json_match == SearchArray(stripped)
    IN  IF json_match.found
        THEN LET loaded == JsonLoads(json_match.group)
             IN  IF loaded.ok
                 THEN [i \in 1..Len(loaded.val.items) |-> Coerced(loaded.val.items[i])]
                 ELSE <<>>
        ELSE <<>>

\* The try block of _parse_internal: the jobs recovered from the completion.
HermesExtract(text) ==
    LET stripped == Strip(text)
        json_match == SearchArray(stripped)
    IN  IF json_match.found
        THEN LET loaded == JsonLoads(json_match.group)
             IN  IF loaded.ok THEN loaded.val.items ELSE <<>>
        ELSE <<>>

\* HermesModel._parse_internal, the engine doing `out` when called.
HermesParseInternal(raw_text, out) ==
    LET messages == << [role |-> "system", content |-> SYSTEM_PROMPT],
                       [role |-> "user", content |-> raw_text] >>
        prompt == HermesFormatMessages(messages)
    IN  [raised |-> out.raises,
         messages |-> messages,
         prompt |-> prompt,
         jobs |-> IF out.raises THEN <<>> ELSE HermesExtract(out.text)]

\* HermesModel.parse_message, a request of Requests served by an engine whose
\* completions are Texts.
ParseMessage(Requests, Texts) ==
    \E req \in Requests :
        LET raw_text == Get(req, "message", "")
        IN  /\ pc = "idle"
            /\ endpoint' = "parse_message"
            /\ request' = req
            /\ IF NoText(raw_text)
               THEN /\ pc' = "responded"
                    /\ handed' = <<>>
                    /\ prompts' = <<>>
                    /\ outcomes' = <<>>
                    /\ response' = [error |-> "No message provided", jobs |-> <<>>]
               ELSE \E out \in EngineOutcomes(Texts) :
                        LET r == HermesParseInternal(raw_text, out)
                        IN  /\ handed' = <<r.messages>>
                            /\ prompts' = <<r.prompt>>
                            /\ outcomes' = <<out>>
                            /\ IF r.raised
                               THEN /\ pc' = "raised"
                                    /\ response' = NoResponse
                               ELSE /\ pc' = "responded"
                                    /\ response' = [success |-> TRUE,
                                                    jobs |-> r.jobs,
                                                    count |-> Len(r.jobs)]

RECURSIVE ParseBatchLoopCatching(_, _, _)
\* A loop that catches what _parse_internal raises and goes on with no jobs.
ParseBatchLoopCatching(messages, outs, run) ==
    IF messages = <<>> \/ outs = <<>> THEN run
    ELSE LET msg == Head(messages)
             r == HermesParseInternal(msg, Head(outs))
         IN  ParseBatchLoopCatching(Tail(messages), Tail(outs),
                 [raised |-> FALSE,
                  results |-> Append(run.results, [message |-> msg,
                                                   jobs |-> r.jobs,
                                                   count |-> Len(r.jobs)]),
                  handed |-> Append(run.handed, r.messages),
                  prompts |-> Append(run.prompts, r.prompt)])

RECURSIVE ParseBatchLoop(_, _, _)
\* The for loop of parse_batch over the messages left, the engine doing outs
\* on its calls in turn; run is [raised, results, handed, prompts] so far.
\* An exception of _parse_internal leaves the loop and the handler.
ParseBatchLoop(messages, outs, run) ==
    IF messages = <<>> THEN run
    ELSE LET msg == Head(messages)
             r == HermesParseInternal(msg, Head(outs))
             ran == [raised |-> r.raised,
                     results |-> run.results,
                     handed |-> Append(run.handed, r.messages),
                     prompts |-> Append(run.prompts, r.prompt)]
         IN  IF r.raised THEN ran
             ELSE ParseBatchLoop(Tail(messages), Tail(outs),
                      [ran EXCEPT !.results =
                          Append(run.results, [message |-> msg,
                                               jobs |-> r.jobs,
                                               count |-> Len(r.jobs)])])

\* len(results) in place of the sum of the counts.
SumCountsOfResults(results) == Len(results)

RECURSIVE SumCounts(_)
\* sum(r["count"] for r in results)
SumCounts(results) ==
    IF results = <<>> THEN 0 ELSE Head(results).count + SumCounts(Tail(results))

\* The engine's behaviour over a request that calls it up to n times: one
\* outcome per call made, none after a call that raised.
EngineRuns(Texts, n) ==
    {outs \in UNION {[1..k -> EngineOutcomes(Texts)] : k \in 1..n} :
        /\ \A i \in 1..(Len(outs) - 1) : ~outs[i].raises
        /\ Len(outs) = n \/ outs[Len(outs)].raises}

\* HermesModel.parse_batch
ParseBatch(Requests, Texts) ==
    \E req \in Requests :
        LET messages == Get(req, "messages", <<>>)
        IN  /\ pc = "idle"
            /\ endpoint' = "parse_batch"
            /\ request' = req
            /\ IF NoList(messages)
               THEN /\ pc' = "responded"
                    /\ handed' = <<>>
                    /\ prompts' = <<>>
                    /\ outcomes' = <<>>
                    /\ response' = [error |-> "No messages provided",
                                    results |-> <<>>]
               ELSE \E outs \in EngineRuns(Texts, Len(messages)) :
                        LET run == ParseBatchLoop(messages, outs,
                                       [raised |-> FALSE, results |-> <<>>,
                                        handed |-> <<>>, prompts |-> <<>>])
                        IN  /\ handed' = run.handed
                            /\ prompts' = run.prompts
                            /\ outcomes' = outs
                            /\ IF run.raised
                               THEN /\ pc' = "raised"
                                    /\ response' = NoResponse
                               ELSE /\ pc' = "responded"
                                    /\ response' =
                                           [success |-> TRUE,
                                            results |-> run.results,
                                            total_jobs |-> SumCounts(run.results)]

(***************************************************************************)
(* AtlasModel                                                              *)
(***************************************************************************)
RECURSIVE AtlasFormatLoop(_, _)
AtlasFormatLoop(messages, formatted) ==
    IF messages = <<>> THEN formatted
    ELSE LET msg == Head(messages)
             role == Get(msg, "role", "user")
             content == Get(msg, "content", "")
         IN  AtlasFormatLoop(Tail(messages),
                 IF role = "system" THEN formatted \o ChatMLBlock("system", content)
                 ELSE IF role = "user" THEN formatted \o ChatMLBlock("user", content)
                 ELSE IF role = "assistant"
                      THEN formatted \o ChatMLBlock("assistant", content)
                 ELSE formatted)

\* AtlasModel._format_messages
AtlasFormatMessages(messages) ==
    AtlasFormatLoop(messages, <<>>) \o <<"<|im_start|>", "assistant", "\n">>

\* AtlasModel._generate, the engine doing `out` when called.
AtlasGenerate(messages, out) ==
    [raised |-> out.raises,
     prompt |-> AtlasFormatMessages(messages),
     text |-> IF out.raises THEN <<>> ELSE Strip(out.text)]

\* AtlasModel.chat
Chat(Requests, Texts) ==
    \E req \in Requests :
        LET messages == Get(req, "messages", <<>>)
        IN  /\ pc = "idle"
            /\ endpoint' = "chat"
            /\ request' = req
            /\ IF NoList(messages)
               THEN /\ pc' = "responded"
                    /\ handed' = <<>>
                    /\ prompts' = <<>>
                    /\ outcomes' = <<>>
                    /\ response' = [error |-> "No messages provided"]
               ELSE \E out \in EngineOutcomes(Texts) :
                        LET r == AtlasGenerate(messages, out)
                        IN  /\ handed' = <<messages>>
                            /\ prompts' = <<r.prompt>>
                            /\ outcomes' = <<out>>
                            /\ IF r.raised
                               THEN /\ pc' = "raised"
                                    /\ response' = NoResponse
                               ELSE /\ pc' = "responded"
                                    /\ response' =
                                         [id |-> "atlas-1",
                                          object |-> "chat.completion",
                                          model |-> "atlas-1",
                                          choices |->
                                            << [index |-> 0,
                                                message |->
                                                  [role |-> "assistant",
                                                   content |-> r.text],
                                                finish_reason |-> "stop"] >>]

INTENT_SYSTEM_PROMPT == "Sen Patron yuk asistanisin. Mesaji analiz et ve JSON dondur. ..."

\* Python's None, which is also what json.loads gives for null; the strings
\* "search" and "other" as values.
PyNone == JsonNull
PyStr(text) == Scalar(text)

ContextWindow == 4
\* conversation_history[:4]
FirstTurns(history) ==
    SubSeq(history, 1, IF Len(history) < ContextWindow THEN Len(history)
                       ELSE ContextWindow)
\* conversation_history[-4:]
LastTurns(history) ==
    SubSeq(history, Max({1, Len(history) - ContextWindow + 1}), Len(history))

\* The response of parse_intent for the stripped completion: the try block
\* and the fallback after it.
IntentResponse(stripped) ==
    LET json_match == SearchObject(stripped)
        loaded == JsonLoads(json_match.group)
    IN  IF json_match.found /\ loaded.ok
        THEN LET parsed == loaded.val
             IN  [success |-> TRUE,
                  origin |-> DictGet(parsed, "origin", PyNone),
                  destination |-> DictGet(parsed, "destination", PyNone),
                  intent |-> DictGet(parsed, "intent", PyStr("search")),
                  vehicle_type |-> DictGet(parsed, "vehicle_type", PyNone),
                  cargo_type |-> DictGet(parsed, "cargo_type", PyNone),
                  raw_response |-> stripped]
        ELSE [success |-> FALSE,
              origin |-> PyNone,
              destination |-> PyNone,
              intent |-> PyStr("other"),
              vehicle_type |-> PyNone,
              cargo_type |-> PyNone,
              raw_response |-> stripped]

\* AtlasModel.parse_intent
ParseIntent(Requests, Texts) ==
    \E req \in Requests :
        LET user_message == Get(req, "message", "")
            conversation_history == Get(req, "history", <<>>)
            messages == << [role |-> "system", content |-> INTENT_SYSTEM_PROMPT] >>
                        \o LastTurns(conversation_history)
                        \o << [role |-> "user", content |-> user_message] >>
        IN  /\ pc = "idle"
            /\ endpoint' = "parse_intent"
            /\ request' = req
            /\ IF NoText(user_message)
               THEN /\ pc' = "responded"
                    /\ handed' = <<>>
                    /\ prompts' = <<>>
                    /\ outcomes' = <<>>
                    /\ response' = [error |-> "No message provided"]
               ELSE \E out \in EngineOutcomes(Texts) :
                        /\ handed' = <<messages>>
                        /\ prompts' = <<AtlasFormatMessages(messages)>>
                        /\ outcomes' = <<out>>
                        /\ IF out.raises
                           THEN /\ pc' = "raised"
                                /\ response' = NoResponse
                           ELSE /\ pc' = "responded"
                                /\ response' = IntentResponse(Strip(out.text))

(***************************************************************************)
(* Completions of the Hermes engine: every text of at most MaxArrayText    *)
(* lexemes, and the compact rendering of every array of at most MaxJobs    *)
(* elements, whole or with one lexeme lost, with text around it.           *)
(***************************************************************************)
SeqsUpTo(Alphabet, n) == UNION {[1..k -> Alphabet] : k \in 0..n}

RECURSIVE Render(_), RenderItems(_), RenderMembers(_, _)
RenderItems(items) ==
    IF items = <<>> THEN <<>>
    ELSE IF Len(items) = 1 THEN Render(items[1])
    ELSE Render(items[1]) \o <<",">> \o RenderItems(Tail(items))
RenderMembers(keys, items) ==
    IF keys = <<>> THEN <<>>
    ELSE IF Len(keys) = 1 THEN <<keys[1], ":">> \o Render(items[1])
    ELSE <<keys[1], ":">> \o Render(items[1]) \o <<",">>
             \o RenderMembers(Tail(keys), Tail(items))
\* The compact text of a JSON value (json.dumps with no white space).
Render(v) ==
    IF v.t = "scalar" THEN <<v.lex>>
    ELSE IF v.t = "list" THEN <<"[">> \o RenderItems(v.items) \o <<"]">>
    ELSE <<"{">> \o RenderMembers(v.keys, v.items) \o <<"}">>

Without(s, i) == SubSeq(s, 1, i - 1) \o SubSeq(s, i + 1, Len(s))
Damaged(s) == {Without(s, i) : i \in 1..Len(s)}
Wrapped(Texts, Before, After) ==
    {b \o t \o a : b \in Before, t \in Texts, a \in After}

JobValues ==
    { Scalar("1"),
      Dict(<<>>, <<>>),
      Dict(<<"origin">>, <<Scalar("A")>>),
      Dict(<<"origin", "destination">>, <<Scalar("A"), JsonNull>>),
      Dict(<<"origin", "extra">>, <<Scalar("A"), Scalar("1")>>) }
JobArrays == {List(items) : items \in SeqsUpTo(JobValues, MaxJobs)}
JobArrayTexts == {Render(v) : v \in JobArrays}

HermesTexts ==
    SeqsUpTo({"[", "]", "{", "}", ",", "1", " ", "x"}, MaxArrayText)
    \cup Wrapped(JobArrayTexts \cup UNION {Damaged(t) : t \in JobArrayTexts},
                 {<<>>, <<"x", " ">>, <<"x", "]">>},
                 {<<>>, <<" ", "x">>, <<"[", "x">>, <<"x", "]">>})

(***************************************************************************)
(* Completions of the Atlas engine for parse_intent: every text of at most *)
(* MaxObjectText lexemes, and the compact rendering of the intent objects, *)
(* whole or with one lexeme lost, with text around it.                     *)
(***************************************************************************)
IntentObjects ==
    { Dict(<<>>, <<>>),
      Dict(<<"intent">>, <<Scalar("A")>>),
      Dict(<<"intent">>, <<JsonNull>>),
      Dict(<<"origin">>, <<Scalar("A")>>),
      Dict(<<"intent", "origin", "destination", "vehicle_type", "cargo_type">>,
           <<Scalar("search"), Scalar("A"), Scalar("A"), JsonNull, JsonNull>>),
      Dict(<<"intent", "extra", "intent">>,
           <<Scalar("A"), Scalar("1"), Scalar("search")>>),
      Dict(<<"origin", "destination">>, <<List(<<Scalar("A")>>), Scalar("A")>>),
      Dict(<<"origin">>, <<Dict(<<"extra">>, <<Scalar("A")>>)>>) }
IntentObjectTexts == {Render(v) : v \in IntentObjects}

AtlasTexts ==
    SeqsUpTo({"{", "}", ":", "intent", "A", " ", "x"}, MaxObjectText)
    \cup Wrapped(IntentObjectTexts \cup UNION {Damaged(t) : t \in IntentObjectTexts},
                 {<<>>, <<" ", "x">>, <<"{", "}">>, <<"}", "x">>},
                 {<<>>, <<"x", " ">>, <<"{", "intent", ":", "A", "}">>})

(***************************************************************************)
(* Requests.  A dict without the key the handler reads carries another.    *)
(***************************************************************************)
MessageRequests ==
    {[message |-> m] : m \in {"", "A--B TIR"}} \cup {[text |-> "A--B TIR"]}

BatchRequests ==
    {[messages |-> ms] : ms \in SeqsUpTo({"", "A--B TIR"}, MaxBatch)}
    \cup {[message |-> "A--B TIR"]}

Turns ==
    {[role |-> r, content |-> "hi"] : r \in {"system", "user", "assistant", "tool"}}
    \cup {[role |-> "user", content |-> ""], [content |-> "hi"], [role |-> "assistant"]}

ChatRequests ==
    {[messages |-> ms] : ms \in SeqsUpTo(Turns, MaxTurns)}
    \cup {[message |-> "hi"]}

HistoryTurns ==
    { [role |-> "user", content |-> "istanbul"],
      [role |-> "assistant", content |-> "nereye?"],
      [role |-> "tool", content |-> "hi"] }

IntentRequests(n) ==
    {[message |-> m, history |-> h] :
        m \in {"", "istanbul ankara"}, h \in SeqsUpTo(HistoryTurns, n)}
    \cup {[message |-> "istanbul ankara"], [history |-> <<>>]}

\* A few completions of each engine, for the requests that vary otherwise.
FewArrayTexts ==
    { <<"x">>,
      <<"[", "]">>,
      <<"[", "{", "origin", ":", "}", "]">>,
      Render(List(<<Dict(<<"origin">>, <<Scalar("A")>>)>>)),
      <<"x", " ">> \o Render(List(<<Dict(<<"origin", "extra">>,
                                         <<Scalar("A"), Scalar("1")>>),
                                    Scalar("1")>>)) }
FewChatTexts == {<<>>, <<" ", "A", " ", "x", " ">>}
FewObjectTexts ==
    { <<"x">>,
      <<"{", "}">>,
      <<" ">> \o Render(Dict(<<"intent">>, <<Scalar("A")>>)) }

Init ==
    /\ pc = "idle"
    /\ endpoint = "none"
    /\ request = [none |-> TRUE]
    /\ handed = <<>>
    /\ prompts = <<>>
    /\ outcomes = <<>>
    /\ response = NoResponse

\* The four endpoints.
Next ==
    \/ ParseMessage(MessageRequests, FewArrayTexts)
    \/ ParseBatch(BatchRequests, FewArrayTexts)
    \/ Chat(ChatRequests, FewChatTexts)
    \/ ParseIntent(IntentRequests(MaxHistory), FewObjectTexts)
Spec == Init /\ [][Next]_vars

\* parse_message over every completion of the Hermes engine.
NextHermes == ParseMessage(MessageRequests, HermesTexts)
SpecHermes == Init /\ [][NextHermes]_vars

\* parse_intent over every completion of the Atlas engine.
NextIntent == ParseIntent(IntentRequests(1), AtlasTexts)
SpecIntent == Init /\ [][NextIntent]_vars

\* The two prompt assemblers as functions of a turn sequence.
InitFormat ==
    /\ pc = "idle"
    /\ endpoint = "none"
    /\ request \in {[messages |-> ms] : ms \in SeqsUpTo(Turns, MaxTurns)}
    /\ handed = <<>>
    /\ prompts = <<>>
    /\ outcomes = <<>>
    /\ response = NoResponse
FormatHermes ==
    /\ pc = "idle"
    /\ pc' = "responded"
    /\ endpoint' = "HermesModel._format_messages"
    /\ handed' = <<request.messages>>
    /\ prompts' = <<HermesFormatMessages(request.messages)>>
    /\ UNCHANGED <<request, outcomes, response>>
FormatAtlas ==
    /\ pc = "idle"
    /\ pc' = "responded"
    /\ endpoint' = "AtlasModel._format_messages"
    /\ handed' = <<request.messages>>
    /\ prompts' = <<AtlasFormatMessages(request.messages)>>
    /\ UNCHANGED <<request, outcomes, response>>
NextFormat == FormatHermes \/ FormatAtlas
SpecFormat == InitFormat /\ [][NextFormat]_vars

(***************************************************************************)
(* The JSON grammar (RFC 8259) over lexemes, stated by its productions,    *)
(* and the places of a text the claims speak of.                           *)
(***************************************************************************)
Compact(s) == SelectSeq(s, LAMBDA x : x # WhiteSpace)

RECURSIVE IsValue(_), IsElements(_), IsMembers(_)
\* value: a scalar, "[" "]", "[" elements "]", "{" "}" or "{" members "}"
IsValue(s) ==
    \/ Len(s) = 1 /\ s[1] \in ScalarLexemes
    \/ /\ Len(s) >= 2
       /\ s[1] = "[" /\ s[Len(s)] = "]"
       /\ Len(s) = 2 \/ IsElements(SubSeq(s, 2, Len(s) - 1))
    \/ /\ Len(s) >= 2
       /\ s[1] = "{" /\ s[Len(s)] = "}"
       /\ Len(s) = 2 \/ IsMembers(SubSeq(s, 2, Len(s) - 1))
\* elements: value, or value "," elements
IsElements(s) ==
    \/ IsValue(s)
    \/ \E k \in 2..(Len(s) - 1) :
           /\ s[k] = ","
           /\ IsValue(SubSeq(s, 1, k - 1))
           /\ IsElements(SubSeq(s, k + 1, Len(s)))
\* members: string ":" value, or string ":" value "," members
IsMembers(s) ==
    /\ Len(s) >= 3
    /\ s[1] \in StringLexemes
    /\ s[2] = ":"
    /\ \/ IsValue(SubSeq(s, 3, Len(s)))
       \/ \E k \in 4..(Len(s) - 1) :
              /\ s[k] = ","
              /\ IsValue(SubSeq(s, 3, k - 1))
              /\ IsMembers(SubSeq(s, k + 1, Len(s)))

\* The text has a "[" with a "]" somewhere after it.
HasArraySpan(s) ==
    \E p \in 1..Len(s) : \E q \in (p + 1)..Len(s) : s[p] = "[" /\ s[q] = "]"
\* From the first "[" of the text to its last "]".
WidestArraySpan(s) ==
    SubSeq(s, Min({p \in 1..Len(s) : s[p] = "["}),
              Max({q \in 1..Len(s) : s[q] = "]"}))
HasValidArraySpan(s) == HasArraySpan(s) /\ IsValue(Compact(WidestArraySpan(s)))

\* The elements of a compact array text: its inside, cut at the commas that
\* lie in no inner bracket.
Opens(s, k) == Cardinality({i \in 1..k : s[i] \in {"[", "{"}})
Closes(s, k) == Cardinality({i \in 1..k : s[i] \in {"]", "}"}})
ElementTexts(s) ==
    LET cuts == {k \in 1..Len(s) :
                    \/ k = 1
                    \/ k = Len(s)
                    \/ s[k] = "," /\ Opens(s, k) - Closes(s, k) = 1}
        n == Cardinality(cuts) - 1
        cut(i) == CHOOSE k \in cuts : Cardinality({j \in cuts : j < k}) = i
    IN  IF Len(s) = 2 THEN <<>>
        ELSE [i \in 1..n |-> SubSeq(s, cut(i - 1) + 1, cut(i) - 1)]

\* parse_message called the engine and the engine returned this completion.
HermesCompleted ==
    /\ endpoint = "parse_message"
    /\ Len(outcomes) = 1
    /\ ~outcomes[1].raises
Completion == outcomes[1].text

C2_ValidArrayRoundTrip ==
    (HermesCompleted /\ HasValidArraySpan(Completion))
        => /\ pc = "responded"
           /\ Render(List(response.jobs)) = Compact(WidestArraySpan(Completion))

\* A two-element array inside other text, with a "]" before it, was parsed.
C2_Witness ==
    /\ HermesCompleted
    /\ HasValidArraySpan(Completion)
    /\ Completion[1] = "x" /\ Completion[2] = "]"
    /\ pc = "responded"
    /\ response.count = 2

\* C9 as claimed: every job returned is an object that carries only fields
\* of the ExtractedJob shape.
ExtractedJobFields ==
    {"origin", "destination", "weight", "vehicle_type", "body_type", "phone"}
C9_JobsHaveExtractedJobShape ==
    (HermesCompleted /\ pc = "responded")
        => \A i \in 1..Len(response.jobs) :
               /\ response.jobs[i].t = "dict"
               /\ \A k \in 1..Len(response.jobs[i].keys) :
                      response.jobs[i].keys[k] \in ExtractedJobFields

\* C9 as amended: each job returned is the corresponding element of the
\* model's array as it stands, every field of it kept, recognised or not,
\* and elements that are no objects kept too.
C9_JobsAreTheElementsUncoerced ==
    (HermesCompleted /\ HasValidArraySpan(Completion))
        => LET elements == ElementTexts(Compact(WidestArraySpan(Completion)))
           IN  /\ response.count = Len(elements)
               /\ Len(response.jobs) = Len(elements)
               /\ \A i \in 1..Len(elements) :
                      Render(response.jobs[i]) = elements[i]

\* A job with a field outside the ExtractedJob shape was returned.
C9_Witness ==
    /\ HermesCompleted
    /\ pc = "responded"
    /\ response.count = 1
    /\ response.jobs[1].keys = <<"origin", "extra">>

\* parse_intent called the engine and the engine returned this completion.
IntentCompleted ==
    /\ endpoint = "parse_intent"
    /\ Len(outcomes) = 1
    /\ ~outcomes[1].raises

\* The text has a "{" with a "}" somewhere after it.
HasBraceSpan(s) ==
    \E p \in 1..Len(s) : \E q \in (p + 1)..Len(s) : s[p] = "{" /\ s[q] = "}"
\* From the first "{" of the text to the first "}" after it.
FirstBraceSpan(s) ==
    LET p == Min({i \in 1..Len(s) : s[i] = "{"})
    IN  SubSeq(s, p, Min({q \in (p + 1)..Len(s) : s[q] = "}"}))
HasValidBraceSpan(s) == HasBraceSpan(s) /\ IsValue(Compact(FirstBraceSpan(s)))

\* The value lexemes of the last member of a compact object text that has
\* this key, or the default when no member has it.
FieldText(object, key, default) ==
    LET members == ElementTexts(object)
        with == {i \in 1..Len(members) : members[i][1] = key}
    IN  IF with = {} THEN default
        ELSE SubSeq(members[Max(with)], 3, Len(members[Max(with)]))

FallbackIntent(raw) ==
    [success |-> FALSE, intent |-> Scalar("other"), origin |-> JsonNull,
     destination |-> JsonNull, vehicle_type |-> JsonNull,
     cargo_type |-> JsonNull, raw_response |-> raw]

\* C3 as claimed: a completion with no "{" ... "}" span, or whose span does
\* not parse as JSON, is answered with the fallback response, raw_response
\* being the original completion text; nothing is raised.
C3_FailureGivesFallbackWithOriginalText ==
    (IntentCompleted /\ ~HasValidBraceSpan(Completion))
        => /\ pc = "responded"
           /\ response = FallbackIntent(Completion)

\* C3 as amended: the same, raw_response being the completion text without
\* its leading and trailing white space.
C3_FailureGivesFallbackWithStrippedText ==
    (IntentCompleted /\ ~HasValidBraceSpan(Completion))
        => /\ pc = "responded"
           /\ response = FallbackIntent(Strip(Completion))

\* A completion with white space around a span that does not parse was
\* answered with the fallback.
C3_Witness ==
    /\ IntentCompleted
    /\ Completion = <<" ", "x", "{", "intent", ":", "}">>
    /\ pc = "responded"
    /\ ~response.success

\* C4: when the span from the first "{" to the first "}" after it parses as
\* a JSON object, the empty object included, the response has success true,
\* each of origin, destination, vehicle_type and cargo_type is the object's
\* value for that key, or null without the key, and intent is the object's
\* value, or "search" without the key.
IntentFieldsOf(object) ==
    /\ response.success
    /\ Render(response.intent) = FieldText(object, "intent", <<"search">>)
    /\ Render(response.origin) = FieldText(object, "origin", <<"null">>)
    /\ Render(response.destination) = FieldText(object, "destination", <<"null">>)
    /\ Render(response.vehicle_type) = FieldText(object, "vehicle_type", <<"null">>)
    /\ Render(response.cargo_type) = FieldText(object, "cargo_type", <<"null">>)
C4_ValidObjectGivesItsFields ==
    (IntentCompleted /\ HasValidBraceSpan(Completion))
        => /\ pc = "responded"
           /\ IntentFieldsOf(Compact(FirstBraceSpan(Completion)))

\* C4 where the code agrees with it: the same, for a first "{" that is not
\* followed at once by "}".
C4_HoldsUnlessBracesAdjacent ==
    (IntentCompleted /\ HasValidBraceSpan(Completion)
        /\ Len(FirstBraceSpan(Completion)) > 2)
        => /\ pc = "responded"
           /\ IntentFieldsOf(Compact(FirstBraceSpan(Completion)))

\* C5: the prompt is one block per turn whose role is system, user or
\* assistant, in input order (opening marker, role, content as given,
\* closing marker), nothing for a turn of another role, then one open
\* assistant marker that is not closed.  A turn that names no role is read
\* as a user turn, and one without content as empty.
Recognized(turns) ==
    SelectSeq(turns, LAMBDA m :
        ("role" \in DOMAIN m) => m.role \in {"system", "user", "assistant"})
Count(s, x) == Cardinality({i \in 1..Len(s) : s[i] = x})
C5_PromptIsTheBlocksThenOpenMarker ==
    (endpoint \in {"HermesModel._format_messages", "AtlasModel._format_messages"})
        => LET turns == Recognized(handed[1])
               n == Len(turns)
               out == prompts[1]
           IN  /\ Len(out) = 6 * n + 3
               /\ \A i \in 1..n :
                      /\ out[6 * i - 5] = "<|im_start|>"
                      /\ out[6 * i - 4] =
                             (IF "role" \in DOMAIN turns[i]
                              THEN turns[i].role ELSE "user")
                      /\ out[6 * i - 3] = "\n"
                      /\ out[6 * i - 2] =
                             (IF "content" \in DOMAIN turns[i]
                              THEN turns[i].content ELSE "")
                      /\ out[6 * i - 1] = "<|im_end|>"
                      /\ out[6 * i] = "\n"
               /\ out[6 * n + 1] = "<|im_start|>"
               /\ out[6 * n + 2] = "assistant"
               /\ out[6 * n + 3] = "\n"
               /\ Count(out, "<|im_start|>") = n + 1
               /\ Count(out, "<|im_end|>") = n

\* Three turns, the middle one of an unrecognized role, were assembled by
\* the Hermes assembler into two blocks and the open marker.
C5_Witness ==
    /\ endpoint = "HermesModel._format_messages"
    /\ Len(handed[1]) = 3
    /\ handed[1][2] = [role |-> "tool", content |-> "hi"]
    /\ handed[1][3] = [role |-> "assistant", content |-> "hi"]
    /\ Len(prompts[1]) = 15

\* The empty turn sequence was assembled by the Atlas assembler.
C5_WitnessEmpty ==
    /\ endpoint = "AtlasModel._format_messages"
    /\ handed[1] = <<>>
    /\ prompts[1] = <<"<|im_start|>", "assistant", "\n">>

\* parse_batch with a non-empty message list.
BatchStarted ==
    /\ endpoint = "parse_batch"
    /\ outcomes # <<>>
\* What the array extractor owes for one completion.
JobsAreOf(jobs, text) ==
    IF HasValidArraySpan(text)
    THEN Render(List(jobs)) = Compact(WidestArraySpan(text))
    ELSE jobs = <<>>

\* C6: the results of a batch have the length of the input; the i-th has the
\* i-th message, the jobs extracted for it and their number as count; and
\* total_jobs is the sum of the counts.
C6_BatchResultsInOrderWithCounts ==
    (BatchStarted /\ pc = "responded")
        => /\ Len(response.results) = Len(request.messages)
           /\ \A i \in 1..Len(request.messages) :
                  /\ response.results[i].message = request.messages[i]
                  /\ JobsAreOf(response.results[i].jobs, outcomes[i].text)
                  /\ response.results[i].count = Len(response.results[i].jobs)
           /\ response.total_jobs =
                  LET most == Max({0} \cup {response.results[i].count :
                                                i \in 1..Len(response.results)})
                  IN  Cardinality(
                          {<<i, j>> \in (1..Len(response.results)) \X (1..most) :
                               j <= response.results[i].count})

\* The spec's example: ["A--B TIR", ""], one job and none, total_jobs 1.
C6_Witness ==
    /\ BatchStarted
    /\ pc = "responded"
    /\ request.messages = <<"A--B TIR", "">>
    /\ response.results[1].count = 1
    /\ response.results[2] = [message |-> "", jobs |-> <<>>, count |-> 0]
    /\ response.total_jobs = 1

\* The extraction of message k failed: the engine raised on it, or its
\* completion holds no valid JSON array.
ExtractionFailed(k) ==
    outcomes[k].raises \/ ~HasValidArraySpan(outcomes[k].text)

NothingInferred == handed = <<>> /\ prompts = <<>> /\ outcomes = <<>>
C8_ValidationBeforeInference ==
    /\ (endpoint = "parse_message"
            /\ ("message" \in DOMAIN request => request.message = ""))
           => /\ pc = "responded"
              /\ response = [error |-> "No message provided", jobs |-> <<>>]
              /\ NothingInferred
    /\ (endpoint = "parse_batch"
            /\ ("messages" \in DOMAIN request => request.messages = <<>>))
           => /\ pc = "responded"
              /\ response = [error |-> "No messages provided", results |-> <<>>]
              /\ NothingInferred
    /\ (endpoint = "chat"
            /\ ("messages" \in DOMAIN request => request.messages = <<>>))
           => /\ pc = "responded"
              /\ response = [error |-> "No messages provided"]
              /\ NothingInferred
    /\ (endpoint = "parse_intent"
            /\ ("message" \in DOMAIN request => request.message = ""))
           => /\ pc = "responded"
              /\ response = [error |-> "No message provided"]
              /\ NothingInferred

\* parse_message was sent {message: ""} and answered it.
C8_Witness ==
    /\ endpoint = "parse_message"
    /\ request = [message |-> ""]
    /\ pc = "responded"
    /\ response = [error |-> "No message provided", jobs |-> <<>>]

\* C10: the turns parse_intent hands to the prompt assembler are the system
\* prompt, then the last min(4, H) of the H history turns in their order,
\* then the current message as a user turn.
C10_ContextIsLastFourTurns ==
    (endpoint = "parse_intent" /\ handed # <<>>)
        => LET history == IF "history" \in DOMAIN request
                          THEN request.history ELSE <<>>
               h == Len(history)
               n == IF h < 4 THEN h ELSE 4
               turns == handed[1]
           IN  /\ Len(handed) = 1
               /\ Len(turns) = n + 2
               /\ turns[1].role = "system"
               /\ turns[1].content = INTENT_SYSTEM_PROMPT
               /\ \A i \in 1..n : turns[1 + i] = history[h - n + i]
               /\ turns[n + 2] = [role |-> "user", content |-> request.message]

\* A request with five history turns was handed on with the last four.
C10_Witness ==
    /\ endpoint = "parse_intent"
    /\ handed # <<>>
    /\ "history" \in DOMAIN request
    /\ Len(request.history) = 5
    /\ request.history[1] # request.history[5]
    /\ Len(handed[1]) = 6

=============================================================================
